---- MODULE Spec2Model ----
(***************************************************************************)
(* The joystick control loops of src/newcode.py and src/UIjoy.py.          *)
(*                                                                         *)
(* Units.  Time is counted in milliseconds (CTRL_LOOP_TIME = 1/100 s is    *)
(* 10).  An axis reading a in [-1.0, 1.0] is the integer a * AxisDen.      *)
(* Altitudes (alt, alt_setpoint, filtered_alt, eh) are fixed point with    *)
(* AltScale steps per metre; the link reports centimetres.  The integral   *)
(* ei is in (1/AltScale m) * ms.  Channel values are integers.  Voltages    *)
(* and the battery thresholds are in tenths of a volt.                     *)
(***************************************************************************)
EXTENDS Integers, Sequences, FiniteSets, TLC

\* ------------------------------------------------------------ constants
CTRL_LOOP_TIME == 10
SLOW_MSGS_LOOP_TIME == 200
NO_OF_CYCLES_AVERAGE_GUI_TIME == 10
DEBOUNCE_TIME == 500
Kp == 50
Ki == 10
\* ALT_FILTER_ALPHA = 0.01 = ALT_FILTER_NUM / ALT_FILTER_DEN
ALT_FILTER_NUM == 1
ALT_FILTER_DEN == 100
\* time.sleep(0.2) of the startup, the reboot branch and the pin branch
SLEEP_200 == 200
\* the trim 1570 of the altitude-hold throttle command
HOLD_BASE == 1570
HOLD_MIN == 900
HOLD_MAX == 1600
AUX_LOW == 1000
AUX_HIGH == 1800
\* UIjoy's mode button: CMDS['aux2'] = (CMDS['aux2'] + 500) % 2000
MODE_STEP == 500
MODE_WRAP == 2000

\* fixed-point resolutions of the model
AxisDen == 1000
AltScale == 10000
CmPerM == 100
MsPerS == 1000

\* ------------------------------------------------------------ bounds
\* loop iterations explored in one run
MaxTicks == 4
\* time.time() when joy_controller is entered (any value above DEBOUNCE_TIME)
StartTime == 1000

\* ------------------------------------------------------------ arithmetic
Min(a, b) == IF a <= b THEN a ELSE b
Max(a, b) == IF a >= b THEN a ELSE b

\* Python int() of the rational n / d (d > 0): truncation toward zero
Trunc(n, d) == IF n >= 0 THEN n \div d ELSE -((-n) \div d)

\* a float product rounded to the fixed-point grid: nearest, ties upward
RoundDiv(n, d) == (n + d \div 2) \div d

\* ------------------------------------------------------------ ChannelMapper
\* scale_axis(val) of both scripts; val is the axis reading times AxisDen
\* variant: the deflection is not clamped
scale_axis_unclamped(val) == 1500 + Trunc(val * 200, AxisDen)

scale_axis(val) == 1500 + Max(-200, Min(200, Trunc(val * 200, AxisDen)))

\* scale_throttle(val) of newcode.py; int() is applied to the (positive) sum
\* variant: the reverse half uses the forward span
scale_throttle_even(val) ==
    LET v == Max(-AxisDen, Min(AxisDen, val))
    IN  Trunc(1600 * AxisDen + v * (1800 - 1600), AxisDen)

scale_throttle(val) ==
    LET v == Max(-AxisDen, Min(AxisDen, val))
    IN  IF v >= 0
        THEN Trunc(1600 * AxisDen + v * (1800 - 1600), AxisDen)
        ELSE Trunc(1600 * AxisDen + v * (1600 - 950), AxisDen)

\* ------------------------------------------------------------ state
VARIABLES
    script,                \* which control script runs: "newcode" or "UIjoy"
    pc,                    \* "start" (joy_controller not yet entered), "loop",
                           \* or the exit taken (Exits)
    clock,                 \* time.time()
    ticks,                 \* loop iterations begun so far
    axis, button,          \* the module globals update() fills
    joy_ok,                \* whether the latest update() returned normally
    CMDS,                  \* the channel frame
    yaw_trim,              \* newcode.py global
    throttle_trim,         \* UIjoy.py global
    alt_hold, alt_setpoint, alt, eh, ei, filtered_alt,
    last_alt_toggle_time,
    now,                   \* the local `now` of the altitude-hold branch
    state23, pin,          \* newcode.py: the toggle flag and the level of GPIO 23
    last_loop_time, last_slow_msg_time,
    slow_idx,              \* position of the cycle() iterator slow_msgs
    last_cycleTime, average_cycle,
    sensor_alt,            \* board.SENSOR_DATA['altitude']
    voltage, voltage_msg,  \* board.ANALOG['voltage'] and its displayed band
    thresholds,            \* min_voltage, warn_voltage, max_voltage
    io,                    \* the link calls of the latest step, in order
    sent,                  \* the frames handed to send_RAW_RC in the latest step
    loss,                  \* history: length of the latest run of device-lost
                           \* iterations, and CMDS['aux2'] before it began
    sent_at,               \* history: time.time() at the latest send_RAW_RC
                           \* call (-1 before the first)
    slow_log,              \* history: the positions in slow_msgs that
                           \* next(slow_msgs) has returned so far, in order
    pin_at                 \* history: time.time() at the latest GPIO.output
                           \* of the button chain (-1 before the first)

vars ==
    << script, pc, clock, ticks, axis, button, joy_ok, CMDS, yaw_trim,
       throttle_trim, alt_hold, alt_setpoint, alt, eh, ei, filtered_alt,
       last_alt_toggle_time, state23, pin, last_loop_time, last_slow_msg_time,
       slow_idx, last_cycleTime, average_cycle, sensor_alt, voltage,
       voltage_msg, thresholds, io, sent, now, loss, sent_at, slow_log,
       pin_at >>

CMDS_ORDER == << "roll", "pitch", "throttle", "yaw", "aux1", "aux2" >>

slow_msgs == << "MSP_ANALOG", "MSP_STATUS_EX", "MSP_MOTOR", "MSP_RC" >>

\* the frame [CMDS[ki] for ki in CMDS_ORDER]
Frame(c) == [i \in 1..Len(CMDS_ORDER) |-> c[CMDS_ORDER[i]]]

\* len(button) > i and button[i]   (Python indexes from 0)
Held(b, i) == Len(b) > i /\ b[i + 1]

\* The working copy of the state an iteration runs on; t is the running
\* time.time(), start_time the local of that name.
Cur ==
    [ script |-> script, pc |-> pc, ticks |-> ticks,
      axis |-> axis, button |-> button, joy_ok |-> joy_ok, CMDS |-> CMDS,
      yaw_trim |-> yaw_trim, throttle_trim |-> throttle_trim,
      alt_hold |-> alt_hold, alt_setpoint |-> alt_setpoint, alt |-> alt,
      eh |-> eh, ei |-> ei, filtered_alt |-> filtered_alt,
      last_alt_toggle_time |-> last_alt_toggle_time,
      state23 |-> state23, pin |-> pin,
      last_loop_time |-> last_loop_time,
      last_slow_msg_time |-> last_slow_msg_time, slow_idx |-> slow_idx,
      last_cycleTime |-> last_cycleTime, average_cycle |-> average_cycle,
      sensor_alt |-> sensor_alt, voltage |-> voltage,
      voltage_msg |-> voltage_msg, thresholds |-> thresholds,
      io |-> << >>, sent |-> << >>, now |-> now, loss |-> loss,
      sent_at |-> sent_at, slow_log |-> slow_log, pin_at |-> pin_at,
      t |-> clock, start_time |-> clock ]

Store(s) ==
    /\ script' = s.script
    /\ pc' = s.pc
    /\ clock' = s.t
    /\ ticks' = s.ticks
    /\ axis' = s.axis
    /\ button' = s.button
    /\ joy_ok' = s.joy_ok
    /\ CMDS' = s.CMDS
    /\ yaw_trim' = s.yaw_trim
    /\ throttle_trim' = s.throttle_trim
    /\ alt_hold' = s.alt_hold
    /\ alt_setpoint' = s.alt_setpoint
    /\ alt' = s.alt
    /\ eh' = s.eh
    /\ ei' = s.ei
    /\ filtered_alt' = s.filtered_alt
    /\ last_alt_toggle_time' = s.last_alt_toggle_time
    /\ state23' = s.state23
    /\ pin' = s.pin
    /\ last_loop_time' = s.last_loop_time
    /\ last_slow_msg_time' = s.last_slow_msg_time
    /\ slow_idx' = s.slow_idx
    /\ last_cycleTime' = s.last_cycleTime
    /\ average_cycle' = s.average_cycle
    /\ sensor_alt' = s.sensor_alt
    /\ voltage' = s.voltage
    /\ voltage_msg' = s.voltage_msg
    /\ thresholds' = s.thresholds
    /\ io' = s.io
    /\ sent' = s.sent
    /\ now' = s.now
    /\ loss' = s.loss
    /\ sent_at' = s.sent_at
    /\ slow_log' = s.slow_log
    /\ pin_at' = s.pin_at

Scripts == {"newcode", "UIjoy"}

Init ==
    /\ script \in Scripts
    /\ pc = "start"
    /\ clock = StartTime
    /\ ticks = 0
    /\ axis = << >>
    /\ button = << >>
    /\ joy_ok = TRUE
    /\ CMDS = [roll |-> 1500, pitch |-> 1500, throttle |-> 900, yaw |-> 1500,
               aux1 |-> AUX_LOW, aux2 |-> AUX_LOW]
    /\ yaw_trim = 0
    /\ throttle_trim = 0
    /\ alt_hold = FALSE
    /\ alt_setpoint = 0
    /\ alt = 0
    /\ eh = 0
    /\ ei = 0
    /\ filtered_alt = 0
    /\ last_alt_toggle_time = 0
    /\ state23 = FALSE
    /\ pin = 0
    /\ last_loop_time = 0
    /\ last_slow_msg_time = 0
    /\ slow_idx = 0
    /\ last_cycleTime = 0
    /\ average_cycle = << >>
    /\ sensor_alt = 0
    /\ voltage = 0
    /\ voltage_msg = ""
    /\ thresholds = [min |-> 0, warn |-> 0, max |-> 0]
    /\ io = << >>
    /\ sent = << >>
    /\ now = 0
    /\ loss = [n |-> 0, aux2 |-> AUX_LOW]
    /\ sent_at = -1
    /\ slow_log = << >>
    /\ pin_at = -1

\* ------------------------------------------------------------ phases
\* An exception leaves the loop; the finally clause runs next.
Raise(s) == [s EXCEPT !.pc = "raised"]

\* start_time = time.time() at the top of the while body
Begin(s) == [s EXCEPT !.ticks = @ + 1, !.start_time = s.t]

\* try: update()  except Exception: CMDS['aux2'] = 1800; continue
\* in.pre is the time the poll of the device takes.
\* variants: the handler lets the exception out; the handler forgets the
\* failsafe channel
PollLostRaises(s, in) == Raise([s EXCEPT !.joy_ok = FALSE, !.t = @ + in.pre])

PollLostNoFailsafe(s, in) == [s EXCEPT !.joy_ok = FALSE, !.t = @ + in.pre]

\* variant: the handler records the duration and sleeps out the period
PollLostSleeps(s, in) ==
    [s EXCEPT !.joy_ok = FALSE, !.CMDS.aux2 = AUX_HIGH,
              !.t = s.start_time + Max(in.pre, CTRL_LOOP_TIME),
              !.last_cycleTime = in.pre,
              !.average_cycle = Tail(Append(@, in.pre)),
              !.loss = IF s.joy_ok THEN [n |-> 1, aux2 |-> s.CMDS.aux2]
                       ELSE [@ EXCEPT !.n = @ + 1]]

PollLost(s, in) ==
    [s EXCEPT !.joy_ok = FALSE, !.CMDS.aux2 = AUX_HIGH, !.t = @ + in.pre,
              !.loss = IF s.joy_ok THEN [n |-> 1, aux2 |-> s.CMDS.aux2]
                       ELSE [@ EXCEPT !.n = @ + 1]]

\* variant: a successful update() puts the failsafe channel back to 1000
PollRestores(s, in) ==
    IF in.lost
    THEN PollLost(s, in)
    ELSE [s EXCEPT !.joy_ok = TRUE, !.axis = in.axis, !.button = in.button,
                   !.CMDS.aux2 = AUX_LOW, !.t = @ + in.pre]

Poll(s, in) ==
    IF in.lost
    THEN PollLost(s, in)
    ELSE [s EXCEPT !.joy_ok = TRUE, !.axis = in.axis, !.button = in.button,
                   !.t = @ + in.pre]

\* variant: the trim is not clamped
scale_yaw_unclamped(b, trim) ==
    IF Held(b, 5) THEN trim + 10
    ELSE IF Held(b, 4) THEN trim - 10
    ELSE 0

\* scale_yaw(): the new value of the global yaw_trim
scale_yaw(b, trim) ==
    IF Held(b, 5) THEN Min(100, trim + 10)
    ELSE IF Held(b, 4) THEN Max(-100, trim - 10)
    ELSE 0

\* the link's altitude in centimetres, as the fixed-point metres of the model
AltOfCm(cm) == cm * (AltScale \div CmPerM)

\* ALT_FILTER_ALPHA * alt + (1 - ALT_FILTER_ALPHA) * filtered_alt
Filter(a, f) ==
    RoundDiv(ALT_FILTER_NUM * a + (ALT_FILTER_DEN - ALT_FILTER_NUM) * f,
             ALT_FILTER_DEN)

\* floor of Kp * e + Ki * i taken as a number of whole channel units, and
\* whether that number is whole
PIFloor(e, i) == (Kp * e + ((Ki * i) \div MsPerS)) \div AltScale
PIWhole(e, i) ==
    /\ (Ki * i) % MsPerS = 0
    /\ (Kp * e + ((Ki * i) \div MsPerS)) % AltScale = 0

\* int(throttle_cmd) with throttle_cmd = 1570 + Kp * eh + Ki * ei
IntThrottleCmd(e, i) ==
    LET f == HOLD_BASE + PIFloor(e, i)
    IN  IF f >= 0 \/ PIWhole(e, i) THEN f ELSE f + 1

\* variant: clamped to the protocol range instead of 900..1600
HoldClampWide(v) == Max(900, Min(2100, v))

\* max(900, min(1600, int(throttle_cmd)))
HoldClamp(v) == Max(HOLD_MIN, Min(HOLD_MAX, v))

\* board.fast_read_altitude(): one link call that stores the reading
ReadAltitude(s, in) ==
    IF in.fault = "alt_raise"
    THEN Raise([s EXCEPT !.io = Append(@, "raise")])
    ELSE [s EXCEPT !.io = Append(@, "alt"), !.sensor_alt = AltOfCm(in.raw)]

\* the else branch of `if not alt_hold`: one PI update
\* variant: the error is taken from the filter value of the previous update
HoldUpdateStale(s, in) ==
    LET r == ReadAltitude(s, in)
        f == Filter(r.sensor_alt, r.filtered_alt)
        e == r.alt_setpoint - r.filtered_alt
        i == r.ei + e * CTRL_LOOP_TIME
    IN  IF r.pc # "loop" THEN r
        ELSE [r EXCEPT !.alt = r.sensor_alt, !.filtered_alt = f, !.eh = e,
                       !.ei = i,
                       !.CMDS.throttle = HoldClamp(IntThrottleCmd(e, i))]

HoldUpdate(s, in) ==
    LET r == ReadAltitude(s, in)
        f == Filter(r.sensor_alt, r.filtered_alt)
        e == r.alt_setpoint - f
        i == r.ei + e * CTRL_LOOP_TIME
    IN  IF r.pc # "loop" THEN r
        ELSE [r EXCEPT !.alt = r.sensor_alt, !.filtered_alt = f, !.eh = e,
                       !.ei = i,
                       !.CMDS.throttle = HoldClamp(IntThrottleCmd(e, i))]

\* from `raw_throttle = scale_throttle(-axis[1])` to `CMDS['pitch'] = raw_pitch`
\* variant: the PI update runs whether hold is enabled or not
MapperHoldAlways(s, in) ==
    IF Len(s.axis) < 5 THEN Raise(s)
    ELSE
    LET raw_roll == scale_axis(s.axis[4])
        raw_pitch == scale_axis(-s.axis[5])
        trim == scale_yaw(s.button, s.yaw_trim)
        raw_yaw == 1500 + trim
        h == HoldUpdate([s EXCEPT !.yaw_trim = trim], in)
    IN  IF h.pc # "loop" THEN h
        ELSE [h EXCEPT !.CMDS.yaw = raw_yaw, !.CMDS.roll = raw_roll,
                       !.CMDS.pitch = raw_pitch]

\* variant: scale_yaw() returns the trimmed value and leaves yaw_trim alone
MapperKeepsTrim(s, in) ==
    IF Len(s.axis) < 5 THEN Raise(s)
    ELSE
    LET raw_throttle == scale_throttle(-s.axis[2])
        raw_roll == scale_axis(s.axis[4])
        raw_pitch == scale_axis(-s.axis[5])
        raw_yaw == 1500 + scale_yaw(s.button, s.yaw_trim)
        h == IF ~s.alt_hold
             THEN [s EXCEPT !.CMDS.throttle = raw_throttle]
             ELSE HoldUpdate(s, in)
    IN  IF h.pc # "loop" THEN h
        ELSE [h EXCEPT !.CMDS.yaw = raw_yaw, !.CMDS.roll = raw_roll,
                       !.CMDS.pitch = raw_pitch]

Mapper(s, in) ==
    IF Len(s.axis) < 5 THEN Raise(s)
    ELSE
    LET raw_throttle == scale_throttle(-s.axis[2])
        raw_roll == scale_axis(s.axis[4])
        raw_pitch == scale_axis(-s.axis[5])
        trim == scale_yaw(s.button, s.yaw_trim)
        raw_yaw == 1500 + trim
        y == [s EXCEPT !.yaw_trim = trim]
        h == IF ~y.alt_hold
             THEN [y EXCEPT !.CMDS.throttle = raw_throttle]
             ELSE HoldUpdate(y, in)
    IN  IF h.pc # "loop" THEN h
        ELSE [h EXCEPT !.CMDS.yaw = raw_yaw, !.CMDS.roll = raw_roll,
                       !.CMDS.pitch = raw_pitch]

\* now - last_alt_toggle_time > DEBOUNCE_TIME
\* variant: no debounce interval
DebouncedAlways(at, last) == TRUE

Debounced(at, last) == at - last > DEBOUNCE_TIME

\* variant: the altitude is read and the state reset only when hold is
\* being enabled
ToggleAltHoldEnableOnly(s, in) ==
    IF ~Debounced(s.t, s.last_alt_toggle_time) THEN [s EXCEPT !.now = s.t]
    ELSE IF s.alt_hold
    THEN [s EXCEPT !.now = s.t, !.last_alt_toggle_time = s.t,
                   !.alt_hold = FALSE]
    ELSE
    LET r == ReadAltitude([s EXCEPT !.now = s.t, !.last_alt_toggle_time = s.t],
                          in)
    IN  IF r.pc # "loop" THEN r
        ELSE [r EXCEPT !.alt_setpoint = r.sensor_alt,
                       !.filtered_alt = r.sensor_alt,
                       !.ei = 0,
                       !.alt_hold = TRUE]

\* variant: the toggle leaves the filter state as it was
ToggleAltHoldNoReset(s, in) ==
    IF ~Debounced(s.t, s.last_alt_toggle_time) THEN [s EXCEPT !.now = s.t]
    ELSE
    LET r == ReadAltitude([s EXCEPT !.now = s.t, !.last_alt_toggle_time = s.t],
                          in)
    IN  IF r.pc # "loop" THEN r
        ELSE [r EXCEPT !.alt_setpoint = r.sensor_alt, !.ei = 0, !.alt_hold = ~@]

\* the body of `elif len(button) > 7 and button[7]`
ToggleAltHold(s, in) ==
    IF ~Debounced(s.t, s.last_alt_toggle_time) THEN [s EXCEPT !.now = s.t]
    ELSE
    LET r == ReadAltitude([s EXCEPT !.now = s.t, !.last_alt_toggle_time = s.t],
                          in)
    IN  IF r.pc # "loop" THEN r
        ELSE [r EXCEPT !.alt_setpoint = r.sensor_alt,
                       !.filtered_alt = r.sensor_alt,
                       !.ei = 0,
                       !.alt_hold = ~@]

\* the if/elif chain under "# Button mappings" of newcode.py
\* variant: the failsafe button tested before the pin button
ButtonChainFailsafeFirst(s, in) ==
    IF Held(s.button, 9)
    THEN [s EXCEPT !.io = Append(@, "reboot"), !.t = @ + SLEEP_200,
                   !.pc = "break"]
    ELSE IF Held(s.button, 0) THEN [s EXCEPT !.CMDS.aux1 = AUX_HIGH]
    ELSE IF Held(s.button, 1) THEN [s EXCEPT !.CMDS.aux1 = AUX_LOW]
    ELSE IF Held(s.button, 2) THEN [s EXCEPT !.CMDS.aux2 = AUX_HIGH]
    ELSE IF Held(s.button, 3)
    THEN [s EXCEPT !.state23 = ~@,
                   !.pin = IF ~s.state23 THEN 1 ELSE 0,
                   !.pin_at = s.t,
                   !.t = @ + SLEEP_200]
    ELSE IF Held(s.button, 7) THEN ToggleAltHold(s, in)
    ELSE s

\* variant: the reboot branch lacks its `break`
ButtonChainNoBreak(s, in) ==
    IF Held(s.button, 9)
    THEN [s EXCEPT !.io = Append(@, "reboot"), !.t = @ + SLEEP_200]
    ELSE IF Held(s.button, 0) THEN [s EXCEPT !.CMDS.aux1 = AUX_HIGH]
    ELSE IF Held(s.button, 1) THEN [s EXCEPT !.CMDS.aux1 = AUX_LOW]
    ELSE IF Held(s.button, 3)
    THEN [s EXCEPT !.state23 = ~@,
                   !.pin = IF ~s.state23 THEN 1 ELSE 0,
                   !.pin_at = s.t,
                   !.t = @ + SLEEP_200]
    ELSE IF Held(s.button, 2) THEN [s EXCEPT !.CMDS.aux2 = AUX_HIGH]
    ELSE IF Held(s.button, 7) THEN ToggleAltHold(s, in)
    ELSE s

ButtonChain(s, in) ==
    IF Held(s.button, 9)
    THEN [s EXCEPT !.io = Append(@, "reboot"), !.t = @ + SLEEP_200,
                   !.pc = "break"]
    ELSE IF Held(s.button, 0) THEN [s EXCEPT !.CMDS.aux1 = AUX_HIGH]
    ELSE IF Held(s.button, 1) THEN [s EXCEPT !.CMDS.aux1 = AUX_LOW]
    ELSE IF Held(s.button, 3)
    THEN [s EXCEPT !.state23 = ~@,
                   !.pin = IF ~s.state23 THEN 1 ELSE 0,
                   !.pin_at = s.t,
                   !.t = @ + SLEEP_200]
    ELSE IF Held(s.button, 2) THEN [s EXCEPT !.CMDS.aux2 = AUX_HIGH]
    ELSE IF Held(s.button, 7) THEN ToggleAltHold(s, in)
    ELSE s

\* board.send_RAW_RC(frame) and, when it is accepted, the receipt of the reply
SendFrame(s, in) ==
    LET f == [s EXCEPT !.sent = Append(@, Frame(s.CMDS)), !.sent_at = s.t]
    IN  IF in.fault = "rc_raise"
        THEN Raise([f EXCEPT !.io = Append(@, "raise")])
        ELSE IF in.fault = "rc_refuse"
        THEN [f EXCEPT !.io = Append(@, "rc_refused")]
        ELSE [f EXCEPT !.io = Append(@, "rc"), !.t = @ + in.lat]

\* if (time.time() - last_loop_time) >= CTRL_LOOP_TIME: ...
FastSend(s, in) ==
    IF s.t - s.last_loop_time >= CTRL_LOOP_TIME
    THEN SendFrame([s EXCEPT !.last_loop_time = s.t], in)
    ELSE s

\* the battery band shown for MSP_ANALOG
\* variant: the bands tested bottom-up with strict comparisons
VoltageMsgStrict(v, th) ==
    IF v < th.min THEN "ULTRA LOW BATT!!!"
    ELSE IF v < th.warn THEN "LOW BATT WARNING"
    ELSE IF v > th.max THEN "VOLTAGE TOO HIGH"
    ELSE ""

VoltageMsg(v, th) ==
    IF th.min < v /\ v <= th.warn THEN "LOW BATT WARNING"
    ELSE IF v <= th.min THEN "ULTRA LOW BATT!!!"
    ELSE IF v >= th.max THEN "VOLTAGE TOO HIGH"
    ELSE ""

\* board.send_RAW_msg(code) and, when accepted, receive_msg and
\* process_recv_data, which stores the reply
Query(s, msg, in) ==
    IF in.fault = "msg_raise"
    THEN Raise([s EXCEPT !.io = Append(@, "raise")])
    ELSE IF in.fault = "decode_raise"
    THEN Raise([s EXCEPT !.io = Append(Append(@, msg), "raise"),
                         !.t = @ + in.lat])
    ELSE IF in.fault = "msg_refuse"
    THEN [s EXCEPT !.io = Append(@, "msg_refused")]
    ELSE [s EXCEPT !.io = Append(@, msg),
                   !.voltage = IF msg = "MSP_ANALOG" THEN in.volt ELSE @,
                   !.t = @ + in.lat]

\* if (time.time() - last_slow_msg_time) >= SLOW_MSGS_LOOP_TIME: ...
\* variant: the cursor stays on the identifier it has queried
SlowStepSameQuery(s, in) ==
    IF s.t - s.last_slow_msg_time < SLOW_MSGS_LOOP_TIME THEN s
    ELSE
    LET next_msg == slow_msgs[s.slow_idx + 1]
        q == Query([s EXCEPT !.last_slow_msg_time = s.t,
                             !.slow_log = Append(@, s.slow_idx)],
                   next_msg, in)
    IN  IF q.pc # "loop" THEN q
        ELSE IF next_msg = "MSP_ANALOG"
        THEN [q EXCEPT !.voltage_msg = VoltageMsg(q.voltage, q.thresholds)]
        ELSE q

\* variant: the handler of the identifier is skipped when the query is refused
SlowStepSkipsHandler(s, in) ==
    IF s.t - s.last_slow_msg_time < SLOW_MSGS_LOOP_TIME THEN s
    ELSE
    LET next_msg == slow_msgs[s.slow_idx + 1]
        q == Query([s EXCEPT !.last_slow_msg_time = s.t,
                             !.slow_idx = (@ + 1) % Len(slow_msgs),
                             !.slow_log = Append(@, s.slow_idx)],
                   next_msg, in)
    IN  IF q.pc # "loop" THEN q
        ELSE IF next_msg = "MSP_ANALOG" /\ in.fault # "msg_refuse"
        THEN [q EXCEPT !.voltage_msg = VoltageMsg(q.voltage, q.thresholds)]
        ELSE q

\* variant: a refused query is asked again at the next slow tick
SlowStepRetry(s, in) ==
    IF s.t - s.last_slow_msg_time < SLOW_MSGS_LOOP_TIME THEN s
    ELSE
    LET next_msg == slow_msgs[s.slow_idx + 1]
        q == Query([s EXCEPT !.last_slow_msg_time = s.t,
                             !.slow_idx = IF in.fault = "msg_refuse" THEN @
                                          ELSE (@ + 1) % Len(slow_msgs),
                             !.slow_log = Append(@, s.slow_idx)],
                   next_msg, in)
    IN  IF q.pc # "loop" THEN q
        ELSE IF next_msg = "MSP_ANALOG"
        THEN [q EXCEPT !.voltage_msg = VoltageMsg(q.voltage, q.thresholds)]
        ELSE q

SlowStep(s, in) ==
    IF s.t - s.last_slow_msg_time < SLOW_MSGS_LOOP_TIME THEN s
    ELSE
    LET next_msg == slow_msgs[s.slow_idx + 1]
        q == Query([s EXCEPT !.last_slow_msg_time = s.t,
                             !.slow_idx = (@ + 1) % Len(slow_msgs),
                             !.slow_log = Append(@, s.slow_idx)],
                   next_msg, in)
    IN  IF q.pc # "loop" THEN q
        ELSE IF next_msg = "MSP_ANALOG"
        THEN [q EXCEPT !.voltage_msg = VoltageMsg(q.voltage, q.thresholds)]
        ELSE q

\* from `end_time = time.time()` to `average_cycle.popleft()`; in.over is
\* the time that passes beyond the requested sleep before the next iteration
EndIter(s, in) ==
    LET d == s.t - s.start_time
    IN  [s EXCEPT !.last_cycleTime = d,
                  !.t = (IF d < CTRL_LOOP_TIME THEN s.start_time + CTRL_LOOP_TIME
                         ELSE s.t) + in.over,
                  !.average_cycle = Tail(Append(@, d))]

\* leaving `with MSPy(...) as board` closes the link; then newcode.py's
\* finally: GPIO.output(PIN, GPIO.LOW); GPIO.cleanup()
ExitPc(p) ==
    IF p = "break" THEN "exit_reboot"
    ELSE IF p = "noconn" THEN "exit_noconn"
    ELSE "exit_error"

\* variant: the finally clause does not drive the pin low
FinallyKeepsPin(s) == [s EXCEPT !.io = Append(@, "close"), !.pc = ExitPc(s.pc)]

Finally(s) ==
    [s EXCEPT !.io = Append(@, "close"), !.pin = 0, !.pc = ExitPc(s.pc)]

\* ------------------------------------------------------------ UIjoy.py
\* variant: the throttle trim is not clamped
UIMapperUnclamped(s) ==
    LET trim == IF Held(s.button, 7) THEN s.throttle_trim + 5
                ELSE IF Held(s.button, 6) THEN s.throttle_trim - 5
                ELSE s.throttle_trim
        a == [s EXCEPT !.throttle_trim = trim, !.CMDS.throttle = 900 + trim]
    IN  IF Len(s.axis) < 4 THEN Raise(a)
        ELSE IF Len(s.axis) < 5
        THEN Raise([a EXCEPT !.CMDS.roll = scale_axis(s.axis[4])])
        ELSE [a EXCEPT !.CMDS.roll = scale_axis(s.axis[4]),
                       !.CMDS.pitch = scale_axis(-s.axis[5]),
                       !.CMDS.yaw = scale_axis(s.axis[1])]

\* from "# Adjust throttle using buttons" to `CMDS['yaw'] = scale_axis(axis[0])`
UIMapper(s) ==
    LET trim == IF Held(s.button, 7) THEN Min(1200, s.throttle_trim + 5)
                ELSE IF Held(s.button, 6) THEN Max(0, s.throttle_trim - 5)
                ELSE s.throttle_trim
        a == [s EXCEPT !.throttle_trim = trim, !.CMDS.throttle = 900 + trim]
    IN  IF Len(s.axis) < 4 THEN Raise(a)
        ELSE IF Len(s.axis) < 5
        THEN Raise([a EXCEPT !.CMDS.roll = scale_axis(s.axis[4])])
        ELSE [a EXCEPT !.CMDS.roll = scale_axis(s.axis[4]),
                       !.CMDS.pitch = scale_axis(-s.axis[5]),
                       !.CMDS.yaw = scale_axis(s.axis[1])]

\* variant: the disarm button is tested before the arm button
UIButtonChainDisarmFirst(s) ==
    IF Held(s.button, 1) THEN [s EXCEPT !.CMDS.aux1 = AUX_LOW]
    ELSE IF Held(s.button, 0) THEN [s EXCEPT !.CMDS.aux1 = AUX_HIGH]
    ELSE IF Held(s.button, 3)
    THEN [s EXCEPT !.CMDS.aux2 = (@ + MODE_STEP) % MODE_WRAP]
    ELSE IF Held(s.button, 2) THEN [s EXCEPT !.CMDS.aux2 = AUX_HIGH]
    ELSE IF Held(s.button, 9)
    THEN [s EXCEPT !.io = Append(@, "reboot"), !.t = @ + SLEEP_200,
                   !.pc = "break"]
    ELSE s

\* the if/elif chain under "# Arm/disarm/mode buttons" of UIjoy.py
UIButtonChain(s) ==
    IF Held(s.button, 0) THEN [s EXCEPT !.CMDS.aux1 = AUX_HIGH]
    ELSE IF Held(s.button, 1) THEN [s EXCEPT !.CMDS.aux1 = AUX_LOW]
    ELSE IF Held(s.button, 3)
    THEN [s EXCEPT !.CMDS.aux2 = (@ + MODE_STEP) % MODE_WRAP]
    ELSE IF Held(s.button, 2) THEN [s EXCEPT !.CMDS.aux2 = AUX_HIGH]
    ELSE IF Held(s.button, 9)
    THEN [s EXCEPT !.io = Append(@, "reboot"), !.t = @ + SLEEP_200,
                   !.pc = "break"]
    ELSE s

\* UIjoy.py's finally only writes to the screen; leaving the with block
\* closes the link
UIFinally(s) == [s EXCEPT !.io = Append(@, "close"), !.pc = ExitPc(s.pc)]

\* ------------------------------------------------------------ startup
\* the configuration queries issued before the loop (board.INAV false)
command_list ==
    << "MSP_API_VERSION", "MSP_FC_VARIANT", "MSP_FC_VERSION", "MSP_BUILD_INFO",
       "MSP_BOARD_INFO", "MSP_UID", "MSP_ACC_TRIM", "MSP_NAME", "MSP_STATUS",
       "MSP_STATUS_EX", "MSP_BATTERY_CONFIG", "MSP_BATTERY_STATE",
       "MSP_BOXNAMES" >>

\* min_voltage, warn_voltage, max_voltage: per-cell values (in tenths of a
\* volt) times cellCount
Thresholds(cfg) ==
    [min |-> cfg.vbatmincellvoltage * cfg.cellCount,
     warn |-> cfg.vbatwarningcellvoltage * cfg.cellCount,
     max |-> cfg.vbatmaxcellvoltage * cfg.cellCount]

\* joy_controller from its entry to the first `while True`, the link
\* connected; st.joy tells whether the update() before the loop succeeds
\* variant: the thresholds are not derived from the reported configuration
StartupNoThresholds(s, st) ==
    LET n == IF s.script = "newcode"
             THEN [s EXCEPT !.io = command_list,
                            !.slow_idx = 0,
                            !.last_loop_time = s.t,
                            !.last_slow_msg_time = s.t,
                            !.last_cycleTime = s.t]
             ELSE s
        w == [n EXCEPT !.average_cycle =
                           [i \in 1..NO_OF_CYCLES_AVERAGE_GUI_TIME |-> 0],
                       !.t = @ + SLEEP_200]
    IN  IF st.joy
        THEN [w EXCEPT !.axis = st.axis, !.button = st.button, !.pc = "loop"]
        ELSE IF s.script = "newcode" THEN Finally(Raise(w))
        ELSE UIFinally(Raise(w))

Startup(s, st) ==
    LET n == IF s.script = "newcode"
             THEN [s EXCEPT !.io = command_list,
                            !.thresholds = Thresholds(st.cfg),
                            !.slow_idx = 0,
                            !.last_loop_time = s.t,
                            !.last_slow_msg_time = s.t,
                            !.last_cycleTime = s.t]
             ELSE s
        w == [n EXCEPT !.average_cycle =
                           [i \in 1..NO_OF_CYCLES_AVERAGE_GUI_TIME |-> 0],
                       !.t = @ + SLEEP_200]
    IN  IF st.joy
        THEN [w EXCEPT !.axis = st.axis, !.button = st.button, !.pc = "loop"]
        ELSE IF s.script = "newcode" THEN Finally(Raise(w))
        ELSE UIFinally(Raise(w))

\* `if board == 1: return 1`, then the finally clause
NoConnection(s) ==
    LET r == [s EXCEPT !.pc = "noconn"]
    IN  IF s.script = "newcode" THEN Finally(r) ELSE UIFinally(r)

\* ------------------------------------------------------------ inputs
NumAxes == 6
NumButtons == 13

\* a button snapshot with exactly the buttons of P held
Btn(P) == [i \in 1..NumButtons |-> (i - 1) \in P]

\* an axis snapshot: left stick vertical a1, right stick a3 and a4
Axes(a0, a1, a3, a4) ==
    [i \in 1..NumAxes |->
        IF i = 1 THEN a0 ELSE IF i = 2 THEN a1 ELSE IF i = 4 THEN a3
        ELSE IF i = 5 THEN a4 ELSE 0]

Neutral == Axes(0, 0, 0, 0)

\* altitude readings of the link, in centimetres
RawAlts == {0, -100, 150000}

\* what one loop iteration meets: the device lost or its snapshot, the
\* altitude and the voltage the link would report, the fault of the link
\* (none, or the call that raises or is refused), and the durations
Quiet ==
    [lost |-> FALSE, axis |-> Neutral, button |-> Btn({}), raw |-> 0,
     volt |-> 111, fault |-> "none", pre |-> 0, lat |-> 0, over |-> 0]

\* the sets of buttons held together in one snapshot
ButtonSets ==
    { {0}, {1}, {2}, {3}, {4}, {5}, {6}, {7}, {9},
      {0, 2}, {1, 2}, {2, 3}, {2, 7}, {2, 9}, {0, 1}, {4, 5}, {6, 7},
      {1, 9} }

AxisSets == { Axes(1000, -1000, 1000, -1000), Axes(-1000, 1000, -333, 7) }

\* the link call that raises or is refused; decode_raise: the query is
\* sent and answered and process_recv_data raises on the answer
Faults ==
    {"alt_raise", "rc_raise", "rc_refuse", "msg_raise", "msg_refuse",
     "decode_raise"}

\* the snapshot of a device with n axes, all at rest
FewAxes(n) == [i \in 1..n |-> 0]

\* devices with fewer axes than newcode.py and UIjoy.py index, and a
\* device with no buttons
SmallDevices ==
    {[Quiet EXCEPT !.axis = FewAxes(n)] : n \in 0..4}
    \cup {[Quiet EXCEPT !.button = << >>]}

\* time beyond the nominal period before the next iteration starts
Overs == {90, 590}

\* iterations with slow calls: the time the poll of the device takes and
\* the time the link takes to answer
Delays == {[pre |-> 8, lat |-> 3]}

Inputs ==
    {Quiet, [Quiet EXCEPT !.lost = TRUE]}
    \cup {[Quiet EXCEPT !.button = Btn(P)] : P \in ButtonSets}
    \cup {[Quiet EXCEPT !.axis = a] : a \in AxisSets}
    \cup {[Quiet EXCEPT !.raw = r] : r \in RawAlts}
    \cup {[Quiet EXCEPT !.raw = r, !.button = Btn({7})] : r \in RawAlts}
    \cup {[Quiet EXCEPT !.fault = f] : f \in Faults}
    \cup {[Quiet EXCEPT !.over = o] : o \in Overs}
    \cup {[Quiet EXCEPT !.over = o, !.button = Btn({7})] : o \in Overs}
    \cup {[Quiet EXCEPT !.pre = d.pre, !.lat = d.lat] : d \in Delays}
    \cup SmallDevices

BatteryConfig ==
    [cellCount |-> 3, vbatmincellvoltage |-> 35,
     vbatwarningcellvoltage |-> 36, vbatmaxcellvoltage |-> 44]

Starts ==
    {[joy |-> j, axis |-> Neutral, button |-> Btn({}), cfg |-> BatteryConfig] :
        j \in BOOLEAN}

\* ------------------------------------------------------------ actions
\* the link connects and joy_controller reaches its loop
Connect ==
    /\ pc = "start"
    /\ \E st \in Starts : \E s \in {Startup(Cur, st)} : st.joy /\ Store(s)

\* the link does not connect, or the device is missing before the loop
ConnectFail ==
    /\ pc = "start"
    /\ \/ \E s \in {NoConnection(Cur)} : Store(s)
       \/ \E st \in Starts : \E s \in {Startup(Cur, st)} : ~st.joy /\ Store(s)

Running == pc = "loop" /\ ticks < MaxTicks

Exits == {"exit_reboot", "exit_error", "exit_noconn"}

\* one pass through the while body of newcode.py on input in, ending with
\* pc = out ("loop", or the exit taken)
\* variant: the slow-rate step placed before the fast-rate send
NewcodeIterationSlowFirst(in, out) ==
    \E s1 \in {Poll(Begin(Cur), in)} :
    IF ~s1.joy_ok
    THEN \E r \in {IF s1.pc = "loop" THEN s1 ELSE Finally(s1)} :
            out = r.pc /\ Store(r)
    ELSE
    \E s2 \in {Mapper(s1, in)} :
    \E s3 \in {IF s2.pc = "loop" THEN ButtonChain(s2, in) ELSE s2} :
    \E s4 \in {IF s3.pc = "loop" THEN SlowStep(s3, in) ELSE s3} :
    \E s5 \in {IF s4.pc = "loop" THEN FastSend(s4, in) ELSE s4} :
    \E s6 \in {IF s5.pc = "loop" THEN EndIter(s5, in) ELSE Finally(s5)} :
        out = s6.pc /\ Store(s6)

\* variant: the fast-rate send placed before the mapping and the PI update
NewcodeIterationSendFirst(in, out) ==
    \E s1 \in {Poll(Begin(Cur), in)} :
    IF ~s1.joy_ok
    THEN \E r \in {IF s1.pc = "loop" THEN s1 ELSE Finally(s1)} :
            out = r.pc /\ Store(r)
    ELSE
    \E s2 \in {FastSend(s1, in)} :
    \E s3 \in {IF s2.pc = "loop" THEN Mapper(s2, in) ELSE s2} :
    \E s4 \in {IF s3.pc = "loop" THEN ButtonChain(s3, in) ELSE s3} :
    \E s5 \in {IF s4.pc = "loop" THEN SlowStep(s4, in) ELSE s4} :
    \E s6 \in {IF s5.pc = "loop" THEN EndIter(s5, in) ELSE Finally(s5)} :
        out = s6.pc /\ Store(s6)

NewcodeIteration(in, out) ==
    \E s1 \in {Poll(Begin(Cur), in)} :
    IF ~s1.joy_ok
    THEN \E r \in {IF s1.pc = "loop" THEN s1 ELSE Finally(s1)} :
            out = r.pc /\ Store(r)
    ELSE
    \E s2 \in {Mapper(s1, in)} :
    \E s3 \in {IF s2.pc = "loop" THEN ButtonChain(s2, in) ELSE s2} :
    \E s4 \in {IF s3.pc = "loop" THEN FastSend(s3, in) ELSE s3} :
    \E s5 \in {IF s4.pc = "loop" THEN SlowStep(s4, in) ELSE s4} :
    \E s6 \in {IF s5.pc = "loop" THEN EndIter(s5, in) ELSE Finally(s5)} :
        out = s6.pc /\ Store(s6)

\* one pass through the while body of UIjoy.py (cycle_time is kept in
\* last_cycleTime)
UIIteration(in, out) ==
    \E s1 \in {Poll(Begin(Cur), in)} :
    IF ~s1.joy_ok
    THEN \E r \in {IF s1.pc = "loop" THEN s1 ELSE UIFinally(s1)} :
            out = r.pc /\ Store(r)
    ELSE
    \E s2 \in {UIMapper(s1)} :
    \E s3 \in {IF s2.pc = "loop" THEN UIButtonChain(s2) ELSE s2} :
    \E s4 \in {IF s3.pc = "loop" THEN SendFrame(s3, in) ELSE s3} :
    \E s5 \in {IF s4.pc = "loop" THEN EndIter(s4, in) ELSE UIFinally(s4)} :
        out = s5.pc /\ Store(s5)

Iteration(in, out) ==
    IF script = "newcode" THEN NewcodeIteration(in, out)
    ELSE UIIteration(in, out)

\* an iteration in which update() raises
DeviceLost ==
    /\ Running
    /\ \E in \in Inputs :
          in.lost /\ \E out \in {"loop"} \cup Exits : Iteration(in, out)

\* an iteration that runs to the end of the while body
Tick ==
    /\ Running
    /\ \E in \in Inputs : ~in.lost /\ Iteration(in, "loop")

\* an iteration that leaves the loop by `break` after board.reboot()
Reboot ==
    /\ Running
    /\ \E in \in Inputs : ~in.lost /\ Iteration(in, "exit_reboot")

\* an iteration that leaves the loop by an exception
Crash ==
    /\ Running
    /\ \E in \in Inputs : ~in.lost /\ Iteration(in, "exit_error")

Next == Connect \/ ConnectFail \/ DeviceLost \/ Tick \/ Reboot \/ Crash

Spec == Init /\ [][Next]_vars

\* ------------------------------------------------------------ slices
\* The state on entry to joy_controller of script sc, as a working copy.
Entered(sc) ==
    [ script |-> sc, pc |-> "start", ticks |-> 0,
      axis |-> << >>, button |-> << >>, joy_ok |-> TRUE,
      CMDS |-> [roll |-> 1500, pitch |-> 1500, throttle |-> 900, yaw |-> 1500,
                aux1 |-> AUX_LOW, aux2 |-> AUX_LOW],
      yaw_trim |-> 0, throttle_trim |-> 0,
      alt_hold |-> FALSE, alt_setpoint |-> 0, alt |-> 0,
      eh |-> 0, ei |-> 0, filtered_alt |-> 0,
      last_alt_toggle_time |-> 0,
      state23 |-> FALSE, pin |-> 0,
      last_loop_time |-> 0,
      last_slow_msg_time |-> 0, slow_idx |-> 0,
      last_cycleTime |-> 0, average_cycle |-> << >>,
      sensor_alt |-> 0, voltage |-> 0,
      voltage_msg |-> "", thresholds |-> [min |-> 0, warn |-> 0, max |-> 0],
      io |-> << >>, sent |-> << >>, now |-> 0,
      loss |-> [n |-> 0, aux2 |-> AUX_LOW],
      sent_at |-> -1, slow_log |-> << >>, pin_at |-> -1,
      t |-> StartTime, start_time |-> StartTime ]

\* the variables hold the working copy s
Loaded(s) ==
    /\ script = s.script
    /\ pc = s.pc
    /\ clock = s.t
    /\ ticks = s.ticks
    /\ axis = s.axis
    /\ button = s.button
    /\ joy_ok = s.joy_ok
    /\ CMDS = s.CMDS
    /\ yaw_trim = s.yaw_trim
    /\ throttle_trim = s.throttle_trim
    /\ alt_hold = s.alt_hold
    /\ alt_setpoint = s.alt_setpoint
    /\ alt = s.alt
    /\ eh = s.eh
    /\ ei = s.ei
    /\ filtered_alt = s.filtered_alt
    /\ last_alt_toggle_time = s.last_alt_toggle_time
    /\ state23 = s.state23
    /\ pin = s.pin
    /\ last_loop_time = s.last_loop_time
    /\ last_slow_msg_time = s.last_slow_msg_time
    /\ slow_idx = s.slow_idx
    /\ last_cycleTime = s.last_cycleTime
    /\ average_cycle = s.average_cycle
    /\ sensor_alt = s.sensor_alt
    /\ voltage = s.voltage
    /\ voltage_msg = s.voltage_msg
    /\ thresholds = s.thresholds
    /\ io = s.io
    /\ sent = s.sent
    /\ now = s.now
    /\ loss = s.loss
    /\ sent_at = s.sent_at
    /\ slow_log = s.slow_log
    /\ pin_at = s.pin_at

\* ---- the battery band of newcode.py over a range of voltages
\* voltages the link reports, in tenths of a volt
VoltLo == 95
VoltHi == 140
\* iterations of the battery slice
MaxBatteryTicks == 1

\* battery configurations the flight controller reports: the defaults of
\* newcode.py, a 4.2 V maximum per cell, and equal minimum and warning levels
BatteryConfigs ==
    { BatteryConfig,
      [BatteryConfig EXCEPT !.vbatmaxcellvoltage = 42],
      [BatteryConfig EXCEPT !.vbatmaxcellvoltage = 42,
                            !.vbatmincellvoltage = 36] }

InitBattery ==
    \E cfg \in BatteryConfigs :
    \E s \in {Startup(Entered("newcode"),
                      [joy |-> TRUE, axis |-> Neutral, button |-> Btn({}),
                       cfg |-> cfg])} :
        Loaded(s)

\* an iteration whose slow-rate step is due, the link reporting voltage v
BatteryTick ==
    /\ pc = "loop" /\ ticks < MaxBatteryTicks
    /\ \E v \in VoltLo..VoltHi :
          NewcodeIteration([Quiet EXCEPT !.volt = v, !.over = 190], "loop")

SpecBattery == InitBattery /\ [][BatteryTick]_vars

\* ---- the channel mapping of both scripts over a range of axis readings
\* axis readings (times AxisDen): multiples of AxisStep up to AxisSpan steps
\* either side of 0, which reaches beyond the nominal -1.0 .. 1.0, and the
\* readings at and next to the ends and the centre
AxisStep == 125
AxisSpan == 9
\* successive applications of the mapping
MaxMapTicks == 2

AxisMarks == {-1000, -999, -333, -5, -4, -1, 0, 1, 4, 5, 333, 999, 1000}

AxisGrid == {g * AxisStep : g \in -AxisSpan..AxisSpan} \cup AxisMarks

\* the trim buttons of the two scripts, alone and together
TrimButtons == { {4}, {5}, {4, 5}, {6}, {7}, {6, 7} }

MapInputs ==
    {[Quiet EXCEPT !.axis = Axes(a, -a, a, -a)] : a \in AxisGrid}
    \cup {[Quiet EXCEPT !.axis = a] : a \in AxisSets}
    \cup {[Quiet EXCEPT !.button = Btn(P)] : P \in TrimButtons}

InitMapper ==
    \E sc \in Scripts :
    \E s \in {Startup(Entered(sc),
                      [joy |-> TRUE, axis |-> Neutral, button |-> Btn({}),
                       cfg |-> BatteryConfig])} :
        Loaded(s)

\* an iteration that maps the snapshot in
MapTick ==
    /\ pc = "loop" /\ ticks < MaxMapTicks
    /\ \E in \in MapInputs : Iteration(in, "loop")

SpecMapper == InitMapper /\ [][MapTick]_vars

\* ---- the trims of the two scripts over many iterations
\* iterations of the trim slice
MaxTrimTicks == 242

\* the snapshots of the trim slice: the two trim buttons of the script,
\* neither, one or both held
TrimInputs ==
    {[Quiet EXCEPT !.button = Btn(P)] :
        P \in IF script = "newcode" THEN { {}, {4}, {5}, {4, 5} }
                                    ELSE { {}, {6}, {7}, {6, 7} }}

InitTrim ==
    \E sc \in Scripts :
    \E s \in {Startup(Entered(sc),
                      [joy |-> TRUE, axis |-> Neutral, button |-> Btn({}),
                       cfg |-> BatteryConfig])} :
        Loaded(s)

\* an iteration that maps the snapshot in
TrimTick ==
    /\ pc = "loop" /\ ticks < MaxTrimTicks
    /\ \E in \in TrimInputs : Iteration(in, "loop")

SpecTrim == InitTrim /\ [][TrimTick]_vars

\* ---- the button chain of newcode.py on every combination of its buttons
\* iterations of the chain slice
MaxChainTicks == 2

\* the buttons the chain of newcode.py tests
ChainButtons == {9, 0, 1, 3, 2, 7}

ChainInputs == {[Quiet EXCEPT !.button = Btn(P)] : P \in SUBSET ChainButtons}

InitChain ==
    \E s \in {Startup(Entered("newcode"),
                      [joy |-> TRUE, axis |-> Neutral, button |-> Btn({}),
                       cfg |-> BatteryConfig])} :
        Loaded(s)

\* an iteration that runs to the end of the while body
ChainTick ==
    /\ pc = "loop" /\ ticks < MaxChainTicks
    /\ \E in \in ChainInputs : Iteration(in, "loop")

\* an iteration that leaves the loop by `break` after board.reboot()
ChainReboot ==
    /\ pc = "loop" /\ ticks < MaxChainTicks
    /\ \E in \in ChainInputs : Iteration(in, "exit_reboot")

SpecChain == InitChain /\ [][ChainTick \/ ChainReboot]_vars

\* ---- the telemetry cursor of newcode.py over many slow ticks
\* iterations of the cursor slice
MaxCursorTicks == 10

\* iterations that differ only in when the next one starts (the slow-rate
\* step is due after 200 ms), the device lost, and a refused query
CursorInputs ==
    { Quiet, [Quiet EXCEPT !.over = 190], [Quiet EXCEPT !.over = 390],
      [Quiet EXCEPT !.lost = TRUE], [Quiet EXCEPT !.fault = "msg_refuse"] }

InitCursor ==
    \E s \in {Startup(Entered("newcode"),
                      [joy |-> TRUE, axis |-> Neutral, button |-> Btn({}),
                       cfg |-> BatteryConfig])} :
        Loaded(s)

CursorTick ==
    /\ pc = "loop" /\ ticks < MaxCursorTicks
    /\ \E in \in CursorInputs : ~in.lost /\ NewcodeIteration(in, "loop")

CursorLost ==
    /\ pc = "loop" /\ ticks < MaxCursorTicks
    /\ \E in \in CursorInputs : in.lost /\ NewcodeIteration(in, "loop")

SpecCursor == InitCursor /\ [][CursorTick \/ CursorLost]_vars

\* ---- newcode.py running without end
\* The loop reads its times only through differences with time.time(), the
\* largest bound tested being DEBOUNCE_TIME; the endless run is kept finite
\* by measuring every time from the start of the next iteration and by
\* forgetting how long ago anything beyond Horizon happened.
Horizon == 600

\* the time at which every iteration of the endless run starts
LiveBase == StartTime + SLEEP_200

\* the working copy s at the end of an iteration, its times measured from
\* the start of the next one; of the histories, ticks keeps its parity,
\* slow_log is dropped and the length of a loss is counted up to 1
Rebase(s) ==
    LET d == s.t - LiveBase
        old == LiveBase - Horizon
    IN  [s EXCEPT !.t = LiveBase,
                  !.last_loop_time = Max(@ - d, old),
                  !.last_slow_msg_time = Max(@ - d, old),
                  !.last_alt_toggle_time = Max(@ - d, old),
                  !.now = Max(@ - d, old),
                  !.sent_at = IF @ = -1 THEN -1 ELSE Max(@ - d, old),
                  !.pin_at = IF @ = -1 THEN -1 ELSE Max(@ - d, old),
                  !.ticks = @ % 2,
                  !.slow_log = << >>,
                  !.loss = [@ EXCEPT !.n = Min(@, 1)]]

\* snapshots of a present device with no button held, the link answering
\* every call, at the nominal period or late; and the device lost, the
\* failed poll taking as long as a period
LiveInputs ==
    {Quiet, [Quiet EXCEPT !.lost = TRUE, !.pre = CTRL_LOOP_TIME]}
    \cup {[Quiet EXCEPT !.over = o] : o \in Overs}

InitLive ==
    \E s \in {Startup(Entered("newcode"),
                      [joy |-> TRUE, axis |-> Neutral, button |-> Btn({}),
                       cfg |-> BatteryConfig])} :
        Loaded(Rebase(s))

\* one pass through the while body of newcode.py, as NewcodeIteration
LiveIteration(in) ==
    \E s1 \in {Poll(Begin(Cur), in)} :
    IF ~s1.joy_ok
    THEN s1.pc = "loop" /\ Store(Rebase(s1))
    ELSE
    \E s2 \in {Mapper(s1, in)} :
    \E s3 \in {IF s2.pc = "loop" THEN ButtonChain(s2, in) ELSE s2} :
    \E s4 \in {IF s3.pc = "loop" THEN FastSend(s3, in) ELSE s3} :
    \E s5 \in {IF s4.pc = "loop" THEN SlowStep(s4, in) ELSE s4} :
        s5.pc = "loop" /\ Store(Rebase(EndIter(s5, in)))

\* an iteration with the device present
LiveTick == pc = "loop" /\ \E in \in LiveInputs : ~in.lost /\ LiveIteration(in)

\* an iteration in which update() raises
LiveLost == pc = "loop" /\ \E in \in LiveInputs : in.lost /\ LiveIteration(in)

LiveNext == LiveTick \/ LiveLost

\* `while True`: the loop thread keeps running, iteration after iteration
SpecLive == InitLive /\ [][LiveNext]_vars /\ WF_vars(LiveNext)

\* ------------------------------------------------------------ claims
InSeq(x, q) == \E k \in 1..Len(q) : q[k] = x

\* C1: an iteration in which update() raises never ends the loop: the loop
\* is still running after it.
LossNeverEndsLoop == [][(pc = "loop" /\ ~joy_ok') => pc' = "loop"]_vars

\* the device has been lost for several iterations in a row and the loop runs
LossWitness == pc = "loop" /\ ~joy_ok /\ loss.n >= 2

\* C2: in every iteration in which the device is lost and a fast-rate send
\* is due, one frame carrying the failsafe value on aux2 is sent.
FrameSentWhileLost ==
    [][(/\ pc = "loop"
        /\ ~joy_ok'
        /\ (script = "UIjoy" \/ clock' - last_loop_time >= CTRL_LOOP_TIME))
       => (Len(sent') = 1 /\ sent'[1][6] = AUX_HIGH)]_vars

\* UIjoy.py's mode button is the first held button of its chain
ModeActs(b) == Held(b, 3) /\ ~Held(b, 0) /\ ~Held(b, 1)

\* C3 as stated: aux2 holds 1800 in the lost iterations and, with the
\* failsafe button not held, is back at its value from before the loss on
\* the first iteration after the device returns.
FailsafeRevertsOnReturn ==
    [][pc = "loop" =>
        /\ ~joy_ok' => CMDS'.aux2 = AUX_HIGH
        /\ (~joy_ok /\ joy_ok' /\ ~Held(button', 2))
              => CMDS'.aux2 = loss.aux2]_vars

\* C3 as amended: aux2 holds 1800 in the lost iterations and does not
\* revert: it is still 1800 after the first iteration with the device back
\* (in UIjoy.py unless the mode button acts in that iteration).
FailsafeKeptAfterLoss ==
    [][pc = "loop" =>
        /\ ~joy_ok' => CMDS'.aux2 = AUX_HIGH
        /\ (~joy_ok /\ joy_ok' /\ ~(script = "UIjoy" /\ ModeActs(button')))
              => CMDS'.aux2 = AUX_HIGH]_vars

\* the device is back after three lost iterations, aux2 was 1000 before the
\* loss, the failsafe button is not held, and aux2 is 1800
LossOfThreeWitness ==
    /\ pc = "loop" /\ joy_ok /\ loss.n = 3 /\ ticks = loss.n + 1
    /\ loss.aux2 = AUX_LOW /\ ~Held(button, 2) /\ CMDS.aux2 = AUX_HIGH

\* C4: every channel value of every frame handed to the link lies in
\* 900..2100.
FramesInRange ==
    \A k \in 1..Len(sent) : \A j \in 1..Len(sent[k]) : sent[k][j] \in 900..2100

\* C5: in an iteration whose snapshot has the failsafe button held, aux2
\* becomes 1800 and no other button's action takes effect (no arm or disarm,
\* no pin or mode toggle, no altitude-hold toggle, no reboot).
FailsafeButtonWins ==
    [][(/\ pc = "loop" /\ ticks' = ticks + 1 /\ joy_ok'
        /\ Len(axis') >= 5 /\ Held(button', 2))
       => /\ CMDS'.aux2 = AUX_HIGH
          /\ CMDS'.aux1 = CMDS.aux1
          /\ state23' = state23 /\ pin' = pin
          /\ alt_hold' = alt_hold
          /\ ~InSeq("reboot", io')]_vars

\* C6: when joy_controller has left its loop (by reboot or by an exception),
\* a channel frame was sent right before the link was closed.
CleanupSendsFinalFrame ==
    pc \in {"exit_reboot", "exit_error"} =>
        \E k \in 1..(Len(io) - 1) : io[k] = "rc" /\ io[k + 1] = "close"

\* C7: the pin is low before and at the start of the loop and after every
\* exit of joy_controller.
PinLowAtStartAndExit ==
    (pc = "start" \/ (pc = "loop" /\ ticks = 0) \/ pc \in Exits) => pin = 0

\* joy_controller was left while the toggled flag was set: the pin was high
PinForcedLowWitness == pc \in Exits /\ state23 /\ pin = 0

\* the iteration's button chain reaches the altitude-hold branch
ToggleEvent(b) ==
    /\ Held(b, 7)
    /\ ~Held(b, 9) /\ ~Held(b, 0) /\ ~Held(b, 1) /\ ~Held(b, 3) /\ ~Held(b, 2)

\* C8: alt_hold changes only at a toggle event more than DEBOUNCE_TIME after
\* its previous change; a toggle event changes it exactly when more than
\* DEBOUNCE_TIME has passed since then; the first event always changes it.
AltHoldDebounced ==
    [][/\ alt_hold' # alt_hold =>
            /\ last_alt_toggle_time' = now'
            /\ now' - last_alt_toggle_time > DEBOUNCE_TIME
       /\ (/\ script = "newcode" /\ pc = "loop" /\ pc' = "loop"
           /\ ticks' = ticks + 1 /\ joy_ok' /\ ToggleEvent(button'))
          => /\ alt_hold' # alt_hold
                  <=> now' - last_alt_toggle_time > DEBOUNCE_TIME
             /\ last_alt_toggle_time = 0 => alt_hold' # alt_hold]_vars

\* two events 0.6 s apart changed alt_hold twice, and a third event 0.1 s
\* after the second changed nothing
DebounceWitness ==
    /\ ~alt_hold
    /\ last_alt_toggle_time = StartTime + SLEEP_200 + 600
    /\ now = last_alt_toggle_time + 100

\* C9: at every Disabled -> Enabled transition the setpoint is the altitude
\* read in that step, the filtered altitude equals it and the integral is 0.
HoldActivationResets ==
    [][(~alt_hold /\ alt_hold')
       => /\ InSeq("alt", io')
          /\ alt_setpoint' = sensor_alt'
          /\ filtered_alt' = alt_setpoint'
          /\ ei' = 0]_vars

\* hold was enabled at a non-zero altitude while the filter state was 0
HoldActivatedWitness ==
    /\ alt_hold /\ now = last_alt_toggle_time /\ clock - now <= CTRL_LOOP_TIME
    /\ alt_setpoint # 0 /\ filtered_alt = alt_setpoint /\ ei = 0

\* an iteration that ran the PI update to its end
HoldUpdated ==
    /\ script = "newcode" /\ pc = "loop" /\ alt_hold
    /\ ticks' = ticks + 1 /\ joy_ok' /\ pc' \in {"loop", "exit_reboot"}

\* the fraction of Kp * e + Ki * i beyond PIFloor, in 1 / (AltScale * MsPerS)
PIFrac(e, i) ==
    (((Kp * e + ((Ki * i) \div MsPerS)) % AltScale) * MsPerS)
        + ((Ki * i) % MsPerS)

\* round(1570 + Kp * e + Ki * i)
RoundThrottleCmd(e, i) ==
    HOLD_BASE + PIFloor(e, i)
        + (IF 2 * PIFrac(e, i) >= AltScale * MsPerS THEN 1 ELSE 0)

\* C10 as stated: with hold enabled the throttle written is
\* clamp(900, 1600, round(1570 + Kp*e + Ki*ei)).
HoldThrottleRounded ==
    [][HoldUpdated =>
        CMDS'.throttle =
            Max(900, Min(1600,
                RoundThrottleCmd(eh', ei + eh' * CTRL_LOOP_TIME)))]_vars

\* C10 as amended: with hold enabled the throttle written is
\* clamp(900, 1600, int(1570 + Kp*e + Ki*ei)), the command truncated toward
\* zero, and so lies in 900..1600.
HoldThrottleTruncated ==
    [][HoldUpdated =>
        /\ CMDS'.throttle =
              Max(900, Min(1600,
                  IntThrottleCmd(eh', ei + eh' * CTRL_LOOP_TIME)))
        /\ CMDS'.throttle \in 900..1600]_vars

\* a PI update whose command 1570.501 was written as 1570
HoldTruncationWitness ==
    /\ alt_hold /\ InSeq("alt", io) /\ eh = 100 /\ ei = 1000
    /\ CMDS.throttle = 1570

\* C11: once MSP_ANALOG has been answered, the band shown is critical
\* exactly for v <= min, low-warning exactly for min < v <= warn, normal
\* exactly for warn < v < max and over-voltage exactly for v >= max; with
\* 10.5 / 10.8 / 12.6 V: 10.4 critical, 10.6 low, 11.5 normal, 12.7 over.
BatteryBands ==
    InSeq("MSP_ANALOG", io) =>
        /\ voltage_msg = "ULTRA LOW BATT!!!" <=> voltage <= thresholds.min
        /\ voltage_msg = "LOW BATT WARNING"
              <=> (thresholds.min < voltage /\ voltage <= thresholds.warn)
        /\ voltage_msg = ""
              <=> (thresholds.warn < voltage /\ voltage < thresholds.max)
        /\ voltage_msg = "VOLTAGE TOO HIGH" <=> voltage >= thresholds.max
        /\ thresholds = [min |-> 105, warn |-> 108, max |-> 126] =>
              /\ voltage = 104 => voltage_msg = "ULTRA LOW BATT!!!"
              /\ voltage = 106 => voltage_msg = "LOW BATT WARNING"
              /\ voltage = 115 => voltage_msg = ""
              /\ voltage = 127 => voltage_msg = "VOLTAGE TOO HIGH"

\* 12.6 V itself was reported against a 12.6 V maximum and shown as too high
BatteryBandsWitness ==
    /\ InSeq("MSP_ANALOG", io)
    /\ thresholds = [min |-> 105, warn |-> 108, max |-> 126]
    /\ voltage = 126 /\ voltage_msg = "VOLTAGE TOO HIGH"

\* the entries of the link calls q that are telemetry queries, answered or
\* refused
SlowQueries(q) ==
    {k \in 1..Len(q) : InSeq(q[k], slow_msgs) \/ q[k] = "msg_refused"}

\* C12: the n-th slow tick (from 0) takes element n mod 4 of the query
\* list, whenever it happens; a slow tick issues exactly one query, the one
\* at the cursor, and no iteration has more than one slow tick.
CursorCycles ==
    [][/\ \A n \in 1..Len(slow_log') :
              slow_log'[n] = (n - 1) % Len(slow_msgs)
       /\ slow_idx' = Len(slow_log') % Len(slow_msgs)
       /\ \/ slow_log' = slow_log /\ SlowQueries(io') = {}
          \/ /\ slow_log' = Append(slow_log, Len(slow_log) % Len(slow_msgs))
             /\ Cardinality(SlowQueries(io')) = 1
             /\ \A k \in SlowQueries(io') :
                    io'[k] \in {"msg_refused",
                                slow_msgs[(Len(slow_log) % Len(slow_msgs)) + 1]}
      ]_vars

\* nine slow ticks, unevenly spaced over ten iterations, visited
\* 0 1 2 3 0 1 2 3 0
CursorWitness ==
    /\ slow_log = << 0, 1, 2, 3, 0, 1, 2, 3, 0 >>
    /\ ticks = 10
    /\ clock > StartTime + SLEEP_200 + 9 * SLOW_MSGS_LOOP_TIME

\* the entries of the link calls q that are frame sends, accepted or refused
FrameSends(q) == {k \in 1..Len(q) : q[k] \in {"rc", "rc_refused"}}

\* C13: in an iteration of newcode.py in which the fast-rate send and the
\* slow-rate step both run, the frame is sent, and its reply received,
\* before the telemetry query is issued.
FastBeforeSlow ==
    [][(/\ script = "newcode" /\ pc = "loop"
        /\ last_loop_time' # last_loop_time /\ slow_log' # slow_log)
       => /\ FrameSends(io') # {}
          /\ \A j \in FrameSends(io') : \A k \in SlowQueries(io') : j < k
          /\ last_slow_msg_time' >= sent_at']_vars

\* a frame was sent, its reply took 3 ms, and then MSP_ANALOG was queried
FastBeforeSlowWitness ==
    /\ pc = "loop" /\ io = << "rc", "MSP_ANALOG" >>
    /\ last_slow_msg_time = sent_at + 3

\* C14: an iteration sends at most one frame and issues at most one query;
\* a frame is sent only 10 ms or more after the previous frame and a query
\* only 200 ms or more after the previous query.
RateGated ==
    [][pc = "loop" =>
        /\ Len(sent') <= 1
        /\ Cardinality(SlowQueries(io')) <= 1
        /\ (Len(sent') = 1 /\ sent_at # -1)
              => sent_at' - sent_at >= CTRL_LOOP_TIME
        /\ (SlowQueries(io') # {} /\ slow_log # << >>)
              => last_slow_msg_time' - last_slow_msg_time
                     >= SLOW_MSGS_LOOP_TIME]_vars

\* the same for the iterations of newcode.py alone, with its timers moving
\* exactly when a frame is sent or a query issued
RateGatedNewcode ==
    [][(pc = "loop" /\ script = "newcode") =>
        /\ Len(sent') <= 1
        /\ Cardinality(SlowQueries(io')) <= 1
        /\ (Len(sent') = 1 /\ sent_at # -1)
              => sent_at' - sent_at >= CTRL_LOOP_TIME
        /\ Len(sent') = 1 <=> last_loop_time' # last_loop_time
        /\ Len(sent') = 1 => last_loop_time' = sent_at'
        /\ slow_log' # slow_log <=> last_slow_msg_time' # last_slow_msg_time
        /\ slow_log' # slow_log
              => last_slow_msg_time' - last_slow_msg_time
                     >= SLOW_MSGS_LOOP_TIME]_vars

\* an iteration that mapped the snapshot axis', button' into CMDS'
Mapped == pc = "loop" /\ pc' = "loop" /\ ticks' = ticks + 1 /\ joy_ok'

\* C15: the roll and pitch values of the frame lie in 1300..1700, are 1500,
\* 1700 and 1300 for the readings 0, 1 and -1, and do not decrease from
\* one mapping to the next when the reading does not decrease.
AxisMapping ==
    [][Mapped =>
        /\ CMDS'.roll \in 1300..1700 /\ CMDS'.pitch \in 1300..1700
        /\ axis'[4] = 0 => CMDS'.roll = 1500
        /\ axis'[4] = AxisDen => CMDS'.roll = 1700
        /\ axis'[4] = -AxisDen => CMDS'.roll = 1300
        /\ axis'[5] = 0 => CMDS'.pitch = 1500
        /\ -axis'[5] = AxisDen => CMDS'.pitch = 1700
        /\ -axis'[5] = -AxisDen => CMDS'.pitch = 1300
        /\ (ticks >= 1 /\ axis[4] <= axis'[4]) => CMDS.roll <= CMDS'.roll
        /\ (ticks >= 1 /\ -axis[5] <= -axis'[5]) => CMDS.pitch <= CMDS'.pitch
      ]_vars

\* a reading of 0.004 mapped to 1500 was followed by a reading of 0.005
\* mapped to 1501
AxisMappingWitness ==
    /\ ticks = 2 /\ axis[4] = 5 /\ CMDS.roll = 1501 /\ CMDS.pitch = 1501

\* C16: with hold off the throttle of newcode.py's frame is 1600, 1800 and
\* 950 for the inputs 0, 1 and -1, lies in 950..1800 for every input
\* (inputs beyond -1..1 count as -1 or 1), rises by 200 per unit above 0
\* and by 650 per unit below, and does not decrease from one mapping to the
\* next when the input does not decrease.
ThrottleMapping ==
    [][(Mapped /\ script = "newcode" /\ ~alt_hold) =>
        LET v == -axis'[2]
            c == Max(-AxisDen, Min(AxisDen, v))
        IN  /\ CMDS'.throttle \in 950..1800
            /\ v = 0 => CMDS'.throttle = 1600
            /\ v >= AxisDen => CMDS'.throttle = 1800
            /\ v <= -AxisDen => CMDS'.throttle = 950
            /\ c >= 0 => CMDS'.throttle = 1600 + (c * 200) \div AxisDen
            /\ c < 0 => CMDS'.throttle = 1600 - ((-c) * 650 + AxisDen - 1) \div AxisDen
            /\ (ticks >= 1 /\ -axis[2] <= v) => CMDS.throttle <= CMDS'.throttle
      ]_vars

\* an input of -1.125, beyond the range, was mapped to 950
ThrottleMappingWitness ==
    /\ script = "newcode" /\ ticks = 2 /\ -axis[2] = -1125
    /\ CMDS.throttle = 950

\* two successive mappings of the same snapshot, hold off
MappedAgain ==
    /\ Mapped /\ ticks >= 1 /\ joy_ok /\ ~alt_hold /\ ~alt_hold'
    /\ axis' = axis /\ button' = button

OneRebootThenClose(q) ==
    /\ Cardinality({k \in 1..Len(q) : q[k] = "reboot"}) = 1
    /\ Len(q) >= 2 /\ q[Len(q) - 1] = "reboot" /\ q[Len(q)] = "close"

\* how the loop may be left: by a reboot request of the held reboot button,
\* or by an exception; and nothing happens once it is left
LeftOnlyByRebootOrError ==
    /\ (pc = "loop" /\ pc' # "loop") =>
          \/ pc' = "exit_reboot" /\ Held(button', 9) /\ InSeq("reboot", io')
          \/ pc' = "exit_error" /\ (InSeq("raise", io') \/ Len(axis') < 5)
    /\ pc \notin Exits

\* C18 as stated: an iteration whose snapshot has the reboot button held
\* (and in which no call raises) issues one reboot request and ends the
\* loop with no frame or query after it; the loop is left in no other way
\* than by reboot or exception.
RebootButtonEndsLoop ==
    [][/\ (/\ pc = "loop" /\ ticks' = ticks + 1 /\ joy_ok'
           /\ Held(button', 9) /\ pc' # "exit_error")
          => /\ pc' = "exit_reboot"
             /\ OneRebootThenClose(io') /\ sent' = << >>
       /\ LeftOnlyByRebootOrError]_vars

\* the reboot branch is the branch the script's chain takes
RebootActs(sc, b) ==
    /\ Held(b, 9)
    /\ sc = "UIjoy"
          => ~Held(b, 0) /\ ~Held(b, 1) /\ ~Held(b, 3) /\ ~Held(b, 2)

\* C18 as amended: the same, for the iterations in which the reboot branch
\* is the one taken (in UIjoy.py the arm, disarm, mode and failsafe buttons
\* come first); with the reboot button held but outranked no reboot is
\* requested and the loop goes on.
RebootBranchEndsLoop ==
    [][/\ (/\ pc = "loop" /\ ticks' = ticks + 1 /\ joy_ok'
           /\ pc' # "exit_error")
          => /\ RebootActs(script, button')
                => /\ pc' = "exit_reboot"
                   /\ OneRebootThenClose(io') /\ sent' = << >>
             /\ ~RebootActs(script, button')
                => pc' = "loop" /\ ~InSeq("reboot", io')
       /\ LeftOnlyByRebootOrError]_vars

\* newcode.py was left by a reboot requested with the failsafe button held
\* as well: the request was the last call before the link was closed
RebootWitness ==
    /\ script = "newcode" /\ pc = "exit_reboot"
    /\ Held(button, 9) /\ Held(button, 2)
    /\ io = << "reboot", "close" >> /\ sent = << >>

\* C19: newcode.py enters its loop with each configuration query issued
\* once, the thresholds derived (3 cells at 3.5, 3.6 and 4.4 V) and no
\* frame sent; the thresholds never change afterwards and the
\* configuration is not queried again; when the link does not connect the
\* loop is never entered and nothing is sent over the link.
StartupOrdered ==
    [][/\ (pc = "start" /\ pc' = "loop" /\ script = "newcode") =>
            /\ Len(io') = 13
            /\ \A j, k \in 1..Len(io') : io'[j] = io'[k] => j = k
            /\ InSeq("MSP_BATTERY_CONFIG", io')
            /\ InSeq("MSP_BATTERY_STATE", io')
            /\ thresholds' = [min |-> 105, warn |-> 108, max |-> 132]
            /\ ticks' = 0
       /\ pc = "start" => sent' = << >> /\ sent_at' = -1
       /\ pc' = "exit_noconn" => pc = "start" /\ io' = << "close" >>
       /\ pc # "start" =>
            /\ thresholds' = thresholds
            /\ ~InSeq("MSP_BATTERY_CONFIG", io')
            /\ ~InSeq("MSP_BATTERY_STATE", io')
      ]_vars

\* the first frame of newcode.py has been sent, with the thresholds in place
StartupWitness ==
    /\ script = "newcode" /\ pc = "loop" /\ ticks = 1 /\ Len(sent) = 1
    /\ thresholds = [min |-> 105, warn |-> 108, max |-> 132]

\* C20: an iteration in which the link refuses the frame, or a link call
\* raises, ends the loop.
LinkFailureEndsLoop ==
    [][(pc = "loop" /\ (InSeq("rc_refused", io') \/ InSeq("raise", io')))
       => pc' = "exit_error"]_vars

\* among the link calls q a telemetry query was sent and answered and the
\* processing of the answer raised
DecodeFailed(q) ==
    \E k \in 1..(Len(q) - 1) : InSeq(q[k], slow_msgs) /\ q[k + 1] = "raise"

\* C21: an iteration in which the answer to a telemetry query cannot be
\* processed leaves the loop running, with the displayed voltage and its
\* band as they were.
DecodeErrorTolerated ==
    [][(pc = "loop" /\ DecodeFailed(io'))
       => /\ pc' = "loop"
          /\ voltage' = voltage /\ voltage_msg' = voltage_msg]_vars

\* C22: an iteration with the device present in which no link call raises
\* runs to its end (or to the reboot request), whatever the numbers of
\* axes and buttons of the snapshot.
SnapshotReadsChecked ==
    [][(/\ pc = "loop" /\ ticks' = ticks + 1 /\ joy_ok'
        /\ ~InSeq("raise", io'))
       => pc' \in {"loop", "exit_reboot"}]_vars

\* C23: an update with hold enabled (and no toggle in the iteration) takes
\* the raw altitude, moves the filter to alpha * raw + (1 - alpha) * filtered
\* (to the nearest step of the altitude grid), takes the error from the
\* moved filter, adds error * 10 ms to the integral whatever time has
\* passed and however the output is clamped, and computes the output from
\* the error and the new integral.
HoldUpdateOrder ==
    [][(/\ HoldUpdated /\ alt_hold'
        /\ last_alt_toggle_time' = last_alt_toggle_time)
       => LET x == ALT_FILTER_NUM * sensor_alt'
                      + (ALT_FILTER_DEN - ALT_FILTER_NUM) * filtered_alt
          IN  /\ alt' = sensor_alt'
              /\ 2 * (x - ALT_FILTER_DEN * filtered_alt') >= -ALT_FILTER_DEN
              /\ 2 * (x - ALT_FILTER_DEN * filtered_alt') < ALT_FILTER_DEN
              /\ alt_setpoint' = alt_setpoint
              /\ eh' = alt_setpoint - filtered_alt'
              /\ ei' = ei + eh' * CTRL_LOOP_TIME
              /\ CMDS'.throttle =
                    Max(900, Min(1600, IntThrottleCmd(eh', ei')))]_vars

\* an update whose output was clamped to 900 added its error times 10 ms
\* to an integral that was already below 0
HoldSaturatedWitness ==
    /\ alt_hold /\ InSeq("alt", io) /\ CMDS.throttle = 900
    /\ eh < 0 /\ ei < eh * CTRL_LOOP_TIME

\* the throttle 1600 + 200 v (v >= 0) or 1600 + 650 v (v < 0) of the input
\* v clamped to -1..1, cut to a whole number
DirectThrottle(v) ==
    LET c == Max(-AxisDen, Min(AxisDen, v))
    IN  IF c >= 0 THEN 1600 + (c * 200) \div AxisDen
        ELSE 1600 - ((-c) * 650 + AxisDen - 1) \div AxisDen

\* C24: an iteration of newcode.py with hold disabled in which no toggle
\* fires leaves setpoint, filtered altitude, integral, error and altitude as
\* they were, reads no altitude from the link, and (the device present and
\* the snapshot mapped) sets the throttle to the mapping of the axis.
HoldOffInert ==
    [][(/\ script = "newcode" /\ pc = "loop" /\ ~alt_hold
        /\ ticks' = ticks + 1
        /\ last_alt_toggle_time' = last_alt_toggle_time)
       => /\ alt_setpoint' = alt_setpoint /\ filtered_alt' = filtered_alt
          /\ ei' = ei /\ eh' = eh /\ alt' = alt /\ ~alt_hold'
          /\ ~InSeq("alt", io')
          /\ (joy_ok' /\ pc' \in {"loop", "exit_reboot"})
                => CMDS'.throttle = DirectThrottle(-axis'[2])]_vars

\* hold was enabled and disabled again, the setpoint is not 0, and the
\* next iteration mapped full forward to 1800 without an altitude read
HoldOffWitness ==
    /\ script = "newcode" /\ pc = "loop" /\ ticks = 3 /\ ~alt_hold
    /\ alt_setpoint # 0 /\ filtered_alt = alt_setpoint
    /\ last_alt_toggle_time < clock - CTRL_LOOP_TIME
    /\ -axis[2] = AxisDen /\ CMDS.throttle = 1800 /\ ~InSeq("alt", io)

\* the altitude reads among the link calls q
AltReads(q) == {k \in 1..Len(q) : q[k] = "alt"}

\* C25 as stated: enabling hold captures the setpoint from the altitude read
\* and resets filter and integral; disabling it leaves the setpoint as it
\* was and issues no altitude read beyond the one of that iteration's
\* update; the setpoint changes at no other time.
ResetOnlyOnEnable ==
    [][/\ (~alt_hold /\ alt_hold') =>
            /\ alt_setpoint' = sensor_alt' /\ filtered_alt' = alt_setpoint'
            /\ ei' = 0
       /\ (alt_hold /\ ~alt_hold') =>
            /\ alt_setpoint' = alt_setpoint
            /\ Cardinality(AltReads(io')) = 1
       /\ alt_hold' = alt_hold => alt_setpoint' = alt_setpoint]_vars

\* C25 as amended: every toggle, enabling or disabling, reads the altitude,
\* captures the setpoint from it and resets filter and integral (when
\* disabling, after the read of that iteration's update); the setpoint
\* changes at no other time, and with hold off filter and integral change
\* at no other time.
ResetAtEveryToggle ==
    [][/\ alt_hold' # alt_hold =>
            /\ last_alt_toggle_time' = now'
            /\ alt_setpoint' = sensor_alt' /\ filtered_alt' = alt_setpoint'
            /\ ei' = 0
            /\ Cardinality(AltReads(io')) = IF alt_hold THEN 2 ELSE 1
       /\ alt_hold' = alt_hold => alt_setpoint' = alt_setpoint
       /\ (alt_hold' = alt_hold /\ ~alt_hold) =>
            filtered_alt' = filtered_alt /\ ei' = ei]_vars

\* hold was just disabled: the setpoint was captured anew, the filter set
\* to it and the integral to 0, with a second altitude read
HoldDisabledWitness ==
    /\ ~alt_hold /\ now = last_alt_toggle_time /\ clock - now <= CTRL_LOOP_TIME
    /\ Cardinality(AltReads(io)) = 2
    /\ alt_setpoint # 0 /\ filtered_alt = alt_setpoint /\ ei = 0

\* C26: altitude hold changes state only on a press edge of button 7, that
\* is, when the button was released in the previous snapshot and is pressed
\* in this one; a button held down across iterations gives one transition.
HoldTogglesOnEdge ==
    [][alt_hold' # alt_hold => (~Held(button, 7) /\ Held(button', 7))]_vars

\* C27: the output-pin toggle is debounced: a level change of the pin made
\* by button 3 comes more than DEBOUNCE_TIME after the previous one, also
\* while the button is held down.
PinToggleDebounced ==
    [][(pin_at' # pin_at /\ pin_at # -1) =>
           pin_at' - pin_at > DEBOUNCE_TIME]_vars

\* C28: in newcode.py every iteration with the device present adds 10 to
\* the yaw trim while button 5 is held (also when button 4 is held too),
\* subtracts 10 while only button 4 is held and sets it to 0 when neither
\* is held, within -100..100; the trim is a multiple of 10 and the yaw
\* channel is 1500 + trim, within 1400..1600.
YawTrimRule ==
    [][(script = "newcode" /\ pc = "loop" /\ ticks' = ticks + 1 /\ joy_ok') =>
          /\ yaw_trim' =
                IF Held(button', 5)
                THEN (IF yaw_trim + 10 > 100 THEN 100 ELSE yaw_trim + 10)
                ELSE IF Held(button', 4)
                THEN (IF yaw_trim - 10 < -100 THEN -100 ELSE yaw_trim - 10)
                ELSE 0
          /\ yaw_trim' \in {10 * k : k \in -10..10}
          /\ CMDS'.yaw = 1500 + yaw_trim'
          /\ CMDS'.yaw \in 1400..1600]_vars

\* the trim stands at its upper limit after an iteration with both trim
\* buttons held, the twelfth in a row with the device present
YawTrimWitness ==
    /\ script = "newcode" /\ pc = "loop" /\ ticks = 12
    /\ Held(button, 5) /\ Held(button, 4)
    /\ yaw_trim = 100 /\ CMDS.yaw = 1600
    /\ Len(sent) = 1 /\ sent[1] = Frame(CMDS)

\* C29: in UIjoy.py every iteration with the device present adds 5 to the
\* throttle trim while button 7 (R2) is held (also when button 6 is held
\* too), subtracts 5 while only button 6 (L2) is held and leaves it when
\* neither is held, within 0..1200; the throttle channel is 900 + trim,
\* within 900..2100.
ThrottleTrimRule ==
    [][(script = "UIjoy" /\ pc = "loop" /\ ticks' = ticks + 1 /\ joy_ok') =>
          /\ throttle_trim' =
                IF Held(button', 7)
                THEN (IF throttle_trim + 5 > 1200 THEN 1200
                      ELSE throttle_trim + 5)
                ELSE IF Held(button', 6)
                THEN (IF throttle_trim - 5 < 0 THEN 0 ELSE throttle_trim - 5)
                ELSE throttle_trim
          /\ throttle_trim' \in 0..1200
          /\ CMDS'.throttle = 900 + throttle_trim'
          /\ CMDS'.throttle \in 900..2100]_vars

\* the trim stands at its upper limit after an iteration with both bumper
\* buttons held
ThrottleTrimWitness ==
    /\ script = "UIjoy" /\ pc = "loop" /\ ticks > 240
    /\ Held(button, 7) /\ Held(button, 6)
    /\ throttle_trim = 1200 /\ CMDS.throttle = 2100
    /\ sent = << Frame(CMDS) >>

\* the arm button is the first held button of the script's chain
ArmActs(sc, b) == Held(b, 0) /\ (sc = "newcode" => ~Held(b, 9))

\* the overlay of aux1 by an iteration, the disarm button taking effect
\* when disarm holds of the snapshot
Aux1Overlay(disarm) ==
    /\ CMDS.aux1 \in {AUX_LOW, AUX_HIGH} /\ CMDS'.aux1 \in {AUX_LOW, AUX_HIGH}
    /\ pc = "start" => CMDS.aux1 = AUX_LOW
    /\ (pc = "loop" /\ ticks' = ticks + 1 /\ ~joy_ok') =>
           CMDS'.aux1 = CMDS.aux1
    /\ (pc = "loop" /\ ticks' = ticks + 1 /\ joy_ok'
           /\ pc' \in {"loop", "exit_reboot"}) =>
           CMDS'.aux1 = IF ArmActs(script, button') THEN AUX_HIGH
                        ELSE IF disarm THEN AUX_LOW
                        ELSE CMDS.aux1

\* C30 as stated: an iteration in which the arm button is the first held
\* button of the chain sets aux1 to 1800, one in which the disarm button is
\* held and the arm button is not sets it to 1000, every other iteration
\* leaves aux1 as it was; aux1 is 1000 at the start and always 1000 or 1800.
ArmDisarmOverlay ==
    [][Aux1Overlay(Held(button', 1) /\ ~Held(button', 0))]_vars

\* C30 as amended: the same, with the disarm button taking effect in
\* newcode.py only when the reboot button is not held with it: there the
\* reboot branch comes first and the iteration leaves aux1 as it was.
ArmDisarmBelowReboot ==
    [][Aux1Overlay(/\ Held(button', 1) /\ ~Held(button', 0)
                   /\ (script = "newcode" => ~Held(button', 9)))]_vars

\* arm and disarm were held together and aux1 went from 1000 to 1800, in the
\* frame sent too
ArmWinsWitness ==
    /\ pc = "loop" /\ ticks = 1 /\ joy_ok
    /\ Held(button, 0) /\ Held(button, 1)
    /\ CMDS.aux1 = AUX_HIGH /\ sent = << Frame(CMDS) >>

\* the order in which the chain of newcode.py is claimed to test its buttons
ChainOrder == << 9, 0, 1, 3, 2, 7 >>

\* the first button of ChainOrder held in snapshot b, -1 when none is
FirstHeld(b) ==
    LET K == {k \in 1..Len(ChainOrder) : Held(b, ChainOrder[k])}
    IN  IF K = {} THEN -1
        ELSE ChainOrder[CHOOSE k \in K : \A j \in K : k <= j]

\* C31: in an iteration of newcode.py with the device present only the
\* action of the first held button in the order 9, 0, 1, 3, 2, 7 takes
\* effect: the reboot and the end of the loop for 9, aux1 = 1800 for 0,
\* aux1 = 1000 for 1, the pin toggle for 3, aux2 = 1800 for 2, the (debounced)
\* altitude-hold toggle for 7; what the other actions own is unchanged.
ChainPriority ==
    [][(/\ script = "newcode" /\ pc = "loop" /\ ticks' = ticks + 1 /\ joy_ok'
        /\ pc' \in {"loop", "exit_reboot"}) =>
       LET f == FirstHeld(button')
       IN  /\ (pc' = "exit_reboot") <=> (f = 9)
           /\ InSeq("reboot", io') <=> (f = 9)
           /\ CMDS'.aux1 = IF f = 0 THEN AUX_HIGH
                            ELSE IF f = 1 THEN AUX_LOW ELSE CMDS.aux1
           /\ state23' = IF f = 3 THEN ~state23 ELSE state23
           /\ (pin_at' # pin_at) <=> (f = 3)
           /\ f = 3 => pin' = IF state23' THEN 1 ELSE 0
           /\ (f # 3 /\ f # 9) => pin' = pin
           /\ CMDS'.aux2 = IF f = 2 THEN AUX_HIGH ELSE CMDS.aux2
           /\ alt_hold' = IF f = 7 /\ clock - last_alt_toggle_time > DEBOUNCE_TIME
                           THEN ~alt_hold ELSE alt_hold
           /\ f # 7 => /\ last_alt_toggle_time' = last_alt_toggle_time
                       /\ alt_setpoint' = alt_setpoint]_vars

\* after arming, an iteration with the pin, failsafe and altitude-hold
\* buttons held together toggled the pin and nothing else
ChainWitness ==
    /\ script = "newcode" /\ pc = "loop" /\ ticks = 2
    /\ FirstHeld(button) = 3 /\ Held(button, 2) /\ Held(button, 7)
    /\ CMDS.aux1 = AUX_HIGH /\ state23 /\ pin = 1
    /\ CMDS.aux2 = AUX_LOW /\ ~alt_hold /\ last_alt_toggle_time = 0

\* C32: every iteration after which the loop goes on, the device present
\* or lost, appends one duration to the rolling window and removes the
\* oldest, so that the window keeps its 10 entries.
WindowRecordsEveryIteration ==
    [][(pc = "loop" /\ ticks' = ticks + 1 /\ pc' = "loop") =>
          /\ Len(average_cycle') = NO_OF_CYCLES_AVERAGE_GUI_TIME
          /\ SubSeq(average_cycle', 1, NO_OF_CYCLES_AVERAGE_GUI_TIME - 1)
                = Tail(average_cycle)]_vars

\* C33: an iteration in which the reboot is requested is not cut short: the
\* frame send, due 0.2 s after the request at the latest, is made in that
\* iteration, which runs to its end before the loop is left.
RebootCooperative ==
    [][(pc = "loop" /\ InSeq("reboot", io')) =>
          /\ Len(sent') = 1
          /\ ticks' = ticks + 1 /\ pc' = "loop"]_vars

\* C34: an iteration of newcode.py that begins with hold enabled and the
\* device present makes one PI update, whose altitude read is the first
\* link call of the iteration, before any frame send and whether or not a
\* send is due (a second altitude read is made only by a toggle that
\* switches hold off); a frame sent in it carries the output of that
\* update as throttle. A frame sent in the iteration that switches hold on
\* carries the throttle mapped from the axis.
HoldUpdateEveryIteration ==
    [][/\ HoldUpdated =>
          LET x == ALT_FILTER_NUM * alt'
                      + (ALT_FILTER_DEN - ALT_FILTER_NUM) * filtered_alt
              f == alt_setpoint - eh'
              i == ei + eh' * CTRL_LOOP_TIME
          IN  /\ io'[1] = "alt"
              /\ Cardinality(AltReads(io')) = IF alt_hold' THEN 1 ELSE 2
              /\ 2 * (x - ALT_FILTER_DEN * f) >= -ALT_FILTER_DEN
              /\ 2 * (x - ALT_FILTER_DEN * f) < ALT_FILTER_DEN
              /\ alt_hold' => (filtered_alt' = f /\ ei' = i)
              /\ CMDS'.throttle = Max(900, Min(1600, IntThrottleCmd(eh', i)))
              /\ Len(sent') <= 1
              /\ Len(sent') = 1 => sent'[1][3] = CMDS'.throttle
       /\ (script = "newcode" /\ pc = "loop" /\ ~alt_hold /\ alt_hold'
             /\ Len(sent') = 1) =>
             sent'[1][3] = DirectThrottle(-axis'[2])]_vars

\* an iteration with hold enabled in which no frame send was due made its
\* PI update all the same
HoldUpdateNoSendWitness ==
    /\ script = "newcode" /\ pc = "loop" /\ alt_hold /\ joy_ok
    /\ io = << "alt" >> /\ sent = << >>
    /\ alt = sensor_alt /\ eh = alt_setpoint - filtered_alt /\ ei # 0

\* C35: an iteration in which the device is lost sets aux2 to 1800 and
\* changes nothing else: the other channels, the trims, the hold flag and
\* the controller state, the debounce time, the two timers, the telemetry
\* cursor and the rolling window stay as they were, no link call is made,
\* the loop goes on and the iteration does not sleep out the period.
LostIterationInert ==
    [][(pc = "loop" /\ ticks' = ticks + 1 /\ ~joy_ok') =>
          /\ CMDS' = [CMDS EXCEPT !.aux2 = AUX_HIGH]
          /\ UNCHANGED << yaw_trim, throttle_trim, alt_hold, alt_setpoint, alt,
                          eh, ei, filtered_alt, last_alt_toggle_time,
                          last_loop_time, last_slow_msg_time, slow_idx,
                          last_cycleTime, average_cycle, state23, pin,
                          voltage, voltage_msg, sent_at, slow_log >>
          /\ io' = << >> /\ sent' = << >>
          /\ pc' = "loop"
          /\ clock' - clock < CTRL_LOOP_TIME]_vars

\* the device was lost in an iteration begun with hold enabled, a slow
\* query made before and aux2 at 1000: aux2 went to 1800, nothing was sent
LostInertWitness ==
    /\ pc = "loop" /\ ~joy_ok /\ loss = [n |-> 1, aux2 |-> AUX_LOW]
    /\ CMDS.aux2 = AUX_HIGH /\ alt_hold /\ slow_log # << >>
    /\ io = << >> /\ sent = << >>

\* C36: in newcode.py aux2 is 1000 at the start, is always 1000 or 1800,
\* and once it is 1800 it is 1800 in every later state.
FailsafeLatched ==
    [][script = "newcode" =>
          /\ pc = "start" => CMDS.aux2 = AUX_LOW
          /\ CMDS.aux2 \in {AUX_LOW, AUX_HIGH}
          /\ CMDS'.aux2 \in {AUX_LOW, AUX_HIGH}
          /\ CMDS.aux2 = AUX_HIGH => CMDS'.aux2 = AUX_HIGH]_vars

\* the failsafe button set aux2 to 1800 earlier; it is released, the device
\* was never lost, and the frame just sent still carries 1800
FailsafeLatchedWitness ==
    /\ script = "newcode" /\ pc = "loop" /\ joy_ok /\ loss.n = 0
    /\ ticks = 3 /\ ~Held(button, 2)
    /\ CMDS.aux2 = AUX_HIGH /\ Len(sent) = 1 /\ sent[1][6] = AUX_HIGH

\* C37: a slow tick whose query the link refuses still moves the cursor on
\* by one and restarts the slow timer; nothing is received, so the stored
\* voltage is as before, and the handler of the identifier runs on it (for
\* MSP_ANALOG the band shown is that of the stored voltage); a query that
\* is sent is always the one at the cursor, so the slow tick after a
\* refusal asks for the next identifier.
RefusedQueryAdvances ==
    [][/\ InSeq("msg_refused", io') =>
            /\ slow_idx' = (slow_idx + 1) % Len(slow_msgs)
            /\ slow_log' = Append(slow_log, slow_idx)
            /\ last_slow_msg_time' > last_slow_msg_time
            /\ \A k \in 1..Len(io') : ~InSeq(io'[k], slow_msgs)
            /\ voltage' = voltage
            /\ voltage_msg' =
                  IF slow_msgs[slow_idx + 1] # "MSP_ANALOG" THEN voltage_msg
                  ELSE IF voltage <= thresholds.min THEN "ULTRA LOW BATT!!!"
                  ELSE IF voltage <= thresholds.warn THEN "LOW BATT WARNING"
                  ELSE IF voltage >= thresholds.max THEN "VOLTAGE TOO HIGH"
                  ELSE ""
            /\ pc' = "loop"
       /\ pc = "loop" =>
             \A k \in 1..Len(io') :
                InSeq(io'[k], slow_msgs) => io'[k] = slow_msgs[slow_idx + 1]]_vars

\* the first query, MSP_ANALOG, was refused and its handler showed the band
\* of the voltage 0 stored by default; the next slow tick asked MSP_STATUS_EX
RefusedQueryWitness ==
    /\ slow_log = << 0, 1 >> /\ InSeq("MSP_STATUS_EX", io)
    /\ voltage = 0 /\ voltage_msg = "ULTRA LOW BATT!!!"

\* C38: in a run of newcode.py whose iterations go on for ever, from some
\* point with the device present in every one, the link answering and no
\* reboot requested, a frame is sent again and again and each of the four
\* telemetry identifiers is queried again and again; and whenever the
\* device is lost, hence also while it stays lost for ever, the iteration
\* sends no frame and issues no query.
LoopLive ==
    /\ (<>[]joy_ok) =>
          /\ []<>(sent # << >>)
          /\ \A m \in 1..4 : []<>InSeq(slow_msgs[m], io)
    /\ [](~joy_ok => (io = << >> /\ sent = << >>))

\* the device came back after a loss and the cursor has gone round to the
\* last identifier: MSP_RC was queried in an iteration that sent a frame
\* carrying the failsafe value
LoopLiveWitness ==
    /\ pc = "loop" /\ joy_ok /\ loss.n = 1
    /\ io = << "rc", "MSP_RC" >> /\ Len(sent) = 1 /\ sent[1][6] = AUX_HIGH

====
